---- MODULE Spec2Model ----
(***************************************************************************)
(* Corporate portal handbook: the server snapshot cache (loadHandbookData, *)
(* /api/handbook, /health) and the client sync controller (fetchData,      *)
(* handleUpdate) with the transform pipeline between them.                 *)
(*                                                                         *)
(* Strings are sequences of character codes, so that lower-casing,         *)
(* comparison, trimming and tag stripping are computed, not assumed.       *)
(***************************************************************************)
EXTENDS Integers, Sequences, FiniteSets, TLC

(***************************************************************************)
(* Bounds of the model.                                                    *)
(***************************************************************************)
NReq == 2          \* concurrent /api/handbook requests
MaxMtime == 3      \* source edits are numbered 1..MaxMtime
MaxLoads == 3      \* cap of the load-count probe
NCyc == 2          \* overlapping client sync cycles
MaxPeople == 3     \* longest list of people given to the Transform Pipeline
MaxItems == 2      \* longest list of items given to filterData
MaxQuery == 2      \* longest query given to filterData
MaxRooms == 3      \* longest list of rooms given to sortCabinetData
MaxRows == 3       \* most rows under the header of a people sheet

(***************************************************************************)
(* Characters and strings.                                                 *)
(***************************************************************************)
\* character codes, in collation order of the lower-cased forms: space,
\* symbols, digits d0..d9 (10..19), letters a..z (20..45), Cyrillic letters
\* (100..132); the upper-case letters are A..Z (50..75) and Cyrillic (140..172)
Chr ==
  [sp |-> 0, lt |-> 1, gt |-> 2, dash |-> 3,
   d0 |-> 10, d1 |-> 11, d2 |-> 12, d9 |-> 19,
   a |-> 20, b |-> 21, h |-> 27, r |-> 37, s |-> 38, z |-> 45,
   A |-> 50, B |-> 51, H |-> 57, S |-> 68, Z |-> 75,
   ca |-> 100, cb |-> 101, ce |-> 105, cA |-> 140, cB |-> 141]

IsUpper(c) == (c >= Chr.A /\ c <= Chr.Z) \/ c >= Chr.cA
IsDigit(c) == c >= Chr.d0 /\ c <= Chr.d9

\* String.prototype.toLowerCase on one character
LowerChar(c) ==
  IF c >= Chr.A /\ c <= Chr.Z THEN c - (Chr.A - Chr.a)
  ELSE IF IsUpper(c) THEN c - (Chr.cA - Chr.ca)
  ELSE c

toLowerCase(s) == [i \in 1..Len(s) |-> LowerChar(s[i])]

\* a.localeCompare(b) < 0 on lower-cased strings: space < symbols < digits
\* < letters, shorter prefix first
RECURSIVE StrLess(_, _)
StrLess(a, b) ==
  IF b = <<>> THEN FALSE
  ELSE IF a = <<>> THEN TRUE
  ELSE IF Head(a) # Head(b) THEN Head(a) < Head(b)
  ELSE StrLess(Tail(a), Tail(b))

\* the sign of a.localeCompare(b)
localeCompare(a, b) == IF StrLess(a, b) THEN -1 ELSE IF StrLess(b, a) THEN 1 ELSE 0

\* String.prototype.trim
RECURSIVE TrimLeft(_)
TrimLeft(s) == IF s # <<>> /\ Head(s) = Chr.sp THEN TrimLeft(Tail(s)) ELSE s

RECURSIVE TrimRight(_)
TrimRight(s) ==
  IF s # <<>> /\ s[Len(s)] = Chr.sp THEN TrimRight(SubSeq(s, 1, Len(s) - 1)) ELSE s

trim(s) == TrimRight(TrimLeft(s))

\* sanitizeHtml(s, {allowedTags: [], allowedAttributes: {}}): every tag is
\* dropped, the text between tags is kept; an unclosed tag swallows the rest
RECURSIVE StripTags(_, _)
StripTags(s, inTag) ==
  IF s = <<>> THEN <<>>
  ELSE IF inTag THEN StripTags(Tail(s), Head(s) # Chr.gt)
  ELSE IF Head(s) = Chr.lt THEN StripTags(Tail(s), TRUE)
  ELSE <<Head(s)>> \o StripTags(Tail(s), FALSE)

\* sanitizeString(input): "" for a falsy cell, else tags stripped and trimmed
sanitizeString(input) == IF input = <<>> THEN <<>> ELSE trim(StripTags(input, FALSE))

\* parseInt(s): the leading run of digits (after leading blanks); NaN is -1
RECURSIVE DigitsValue(_, _)
DigitsValue(s, acc) ==
  IF s # <<>> /\ IsDigit(Head(s)) THEN DigitsValue(Tail(s), acc * 10 + (Head(s) - Chr.d0))
  ELSE acc

NaN == -1

parseInt(s) ==
  LET t == TrimLeft(s)
  IN IF t # <<>> /\ IsDigit(Head(t)) THEN DigitsValue(t, 0) ELSE NaN

\* parseInt(...) || 99: NaN and 0 are both falsy
DefaultPriority == 99

PriorityOf(cell) ==
  LET n == parseInt(sanitizeString(cell))
  IN IF n = NaN \/ n = 0 THEN DefaultPriority ELSE n

(***************************************************************************)
(* Record Normalizer: rows of the two sheets to OfficeEmployee / Cabinet.  *)
(***************************************************************************)
\* cleanValues[k] (0-based in the source, 1-based here); absent cell is empty
CellAt(row, k) == IF k <= Len(row) THEN row[k] ELSE <<>>

\* cleanValues.every((val) => !val)
RowIsEmpty(row) == \A k \in 1..Len(row) : row[k] = <<>>

OfficeRecord(row) ==
  [department |-> sanitizeString(CellAt(row, 1)),
   sortPriority |-> PriorityOf(CellAt(row, 2)),
   position |-> sanitizeString(CellAt(row, 3)),
   fullName |-> sanitizeString(CellAt(row, 4)),
   internalNumber |-> sanitizeString(CellAt(row, 5)),
   generalNumber |-> sanitizeString(CellAt(row, 6))]

CabinetRecord(row) ==
  [city |-> sanitizeString(CellAt(row, 1)),
   address |-> sanitizeString(CellAt(row, 2)),
   internalNumber |-> sanitizeString(CellAt(row, 3))]

\* a sheet is <<>> when the workbook has no such worksheet, else <<rows>>
\* with the header row first
RECURSIVE ReadOfficeRowsKeepsEmpty(_, _)
ReadOfficeRowsKeepsEmpty(rows, rowNumber) ==
  IF rows = <<>> THEN <<>>
  ELSE IF rowNumber = 1
       THEN ReadOfficeRowsKeepsEmpty(Tail(rows), rowNumber + 1)
       ELSE <<OfficeRecord(Head(rows))>> \o ReadOfficeRowsKeepsEmpty(Tail(rows), rowNumber + 1)

RECURSIVE ReadOfficeRows(_, _)
ReadOfficeRows(rows, rowNumber) ==
  IF rows = <<>> THEN <<>>
  ELSE IF rowNumber = 1 \/ RowIsEmpty(Head(rows))
       THEN ReadOfficeRows(Tail(rows), rowNumber + 1)
       ELSE <<OfficeRecord(Head(rows))>> \o ReadOfficeRows(Tail(rows), rowNumber + 1)

RECURSIVE ReadCabinetRows(_, _)
ReadCabinetRows(rows, rowNumber) ==
  IF rows = <<>> THEN <<>>
  ELSE IF rowNumber = 1 \/ RowIsEmpty(Head(rows))
       THEN ReadCabinetRows(Tail(rows), rowNumber + 1)
       ELSE <<CabinetRecord(Head(rows))>> \o ReadCabinetRows(Tail(rows), rowNumber + 1)

ReadOfficeSheet(wb) == IF wb.office = <<>> THEN <<>> ELSE ReadOfficeRows(wb.office[1], 1)

ReadCabinetsSheet(wb) ==
  IF wb.cabinets = <<>> THEN <<>> ELSE ReadCabinetRows(wb.cabinets[1], 1)

(***************************************************************************)
(* The sources the model edits the file to.                                *)
(***************************************************************************)
sSales == <<Chr.S, Chr.a, Chr.s>>
sHr == <<Chr.H, Chr.r>>
sJane == <<Chr.B, Chr.a>>
sAbe == <<Chr.a, Chr.b>>
sZed == <<Chr.Z, Chr.a>>
sMgr == <<Chr.h, Chr.a>>
s101 == <<Chr.d1, Chr.d0, Chr.d1>>
s100 == <<Chr.d1, Chr.d0, Chr.d0>>
s200 == <<Chr.d2, Chr.d0, Chr.d0>>
sOne == <<Chr.d1>>
sTwo == <<Chr.d2>>
sZurich == <<Chr.Z, Chr.r>>
sAustin == <<Chr.A, Chr.s>>
sMain == <<Chr.h, Chr.z>>
sFirst == <<Chr.d1, Chr.s>>
Hdr == <<<<Chr.h>>>>
EmptyRow == <<<<>>, <<>>, <<>>, <<>>, <<>>, <<>>>>

WbA ==
  [bad |-> FALSE,
   office |-> <<<<Hdr,
                 <<sSales, sOne, sMgr, sJane, s101, s100>>,
                 EmptyRow>>>>,
   cabinets |-> <<<<Hdr, <<sZurich, sMain, <<Chr.d1>>>>, <<sAustin, sFirst, <<Chr.d2>>>>>>>>]

WbB ==
  [bad |-> FALSE,
   office |-> <<<<Hdr,
                 <<sSales, sTwo, sMgr, sZed, s101, s100>>,
                 <<<<>>, <<Chr.a>>, sMgr, sAbe, <<Chr.d9>>, <<>>>>,
                 <<sSales, sOne, <<Chr.lt, Chr.b, Chr.gt>> \o sMgr, <<Chr.sp>> \o sJane, s101, s200>>>>>>,
   cabinets |-> <<>>]

WbBad == [bad |-> TRUE, office |-> <<>>, cabinets |-> <<>>]

\* readable workbooks without the people sheet, and without both sheets
WbNoOffice ==
  [bad |-> FALSE,
   office |-> <<>>,
   cabinets |-> <<<<Hdr, <<sAustin, sMain, <<Chr.d9>>>>>>>>]

WbNoSheets == [bad |-> FALSE, office |-> <<>>, cabinets |-> <<>>]

Workbooks == {WbA, WbB, WbBad, WbNoOffice, WbNoSheets}

(***************************************************************************)
(* Transform Pipeline (client): grouping, sorting, flattening.             *)
(***************************************************************************)
\* employee.department || "Без отдела"
NoDepartment == <<Chr.cB, Chr.ce>>

\* employee.generalNumber || "—"
NoGeneralNumber == <<Chr.dash>>

\* the comparator of groupAndSortOfficeData: priority, then lower-cased name
EmployeeCompare(x, y) ==
  IF x.sortPriority # y.sortPriority THEN x.sortPriority - y.sortPriority
  ELSE localeCompare(toLowerCase(x.fullName), toLowerCase(y.fullName))

\* [...data].sort(cmp) is stable: x goes behind every element not after it
RECURSIVE InsertEmployeeBeforeTies(_, _)
InsertEmployeeBeforeTies(sorted, x) ==
  IF sorted = <<>> THEN <<x>>
  ELSE IF EmployeeCompare(Head(sorted), x) < 0
       THEN <<Head(sorted)>> \o InsertEmployeeBeforeTies(Tail(sorted), x)
       ELSE <<x>> \o sorted

RECURSIVE InsertEmployee(_, _)
InsertEmployee(sorted, x) ==
  IF sorted = <<>> THEN <<x>>
  ELSE IF EmployeeCompare(Head(sorted), x) <= 0
       THEN <<Head(sorted)>> \o InsertEmployee(Tail(sorted), x)
       ELSE <<x>> \o sorted

RECURSIVE SortEmployees(_, _)
SortEmployees(todo, sorted) ==
  IF todo = <<>> THEN sorted
  ELSE SortEmployees(Tail(todo), InsertEmployee(sorted, Head(todo)))

\* a JavaScript object is the sequence of its entries in enumeration order:
\* keys that are array indices first, in numeric order, then the other keys
\* in insertion order
IsArrayIndex(k) ==
  /\ k # <<>>
  /\ \A i \in 1..Len(k) : IsDigit(k[i])
  /\ (Len(k) = 1 \/ k[1] # Chr.d0)

ObjHas(obj, k) == \E i \in 1..Len(obj) : obj[i].key = k

ObjIndex(obj, k) == CHOOSE i \in 1..Len(obj) : obj[i].key = k

RECURSIVE ObjInsertIndex(_, _)
ObjInsertIndex(obj, e) ==
  IF obj = <<>> THEN <<e>>
  ELSE IF IsArrayIndex(Head(obj).key) /\ DigitsValue(Head(obj).key, 0) < DigitsValue(e.key, 0)
       THEN <<Head(obj)>> \o ObjInsertIndex(Tail(obj), e)
       ELSE <<e>> \o obj

\* obj[e.key] = e for a key the object does not have yet
ObjAdd(obj, e) == IF IsArrayIndex(e.key) THEN ObjInsertIndex(obj, e) ELSE Append(obj, e)

\* the reducer of groupAndSortOfficeData
GroupStepDropsDuplicates(acc, employee) ==
  LET dept == IF employee.department = <<>> THEN NoDepartment ELSE employee.department
      gn == IF employee.generalNumber = <<>> THEN NoGeneralNumber
            ELSE employee.generalNumber
      acc1 == IF ObjHas(acc, dept) THEN acc
              ELSE ObjAdd(acc, [key |-> dept, employees |-> <<>>, generalNumber |-> gn])
      i == ObjIndex(acc1, dept)
  IN IF \E k \in 1..Len(acc1[i].employees) : acc1[i].employees[k] = employee
     THEN acc1
     ELSE [acc1 EXCEPT ![i].employees = Append(@, employee)]

GroupStep(acc, employee) ==
  LET dept == IF employee.department = <<>> THEN NoDepartment ELSE employee.department
      gn == IF employee.generalNumber = <<>> THEN NoGeneralNumber
            ELSE employee.generalNumber
      acc1 == IF ObjHas(acc, dept) THEN acc
              ELSE ObjAdd(acc, [key |-> dept, employees |-> <<>>, generalNumber |-> gn])
      i == ObjIndex(acc1, dept)
  IN [acc1 EXCEPT ![i].employees = Append(@, employee)]

RECURSIVE GroupReduce(_, _)
GroupReduce(todo, acc) ==
  IF todo = <<>> THEN acc ELSE GroupReduce(Tail(todo), GroupStep(acc, Head(todo)))

\* Object.keys(grouped).sort by lower-cased key, stable
RECURSIVE InsertKey(_, _)
InsertKey(sorted, e) ==
  IF sorted = <<>> THEN <<e>>
  ELSE IF localeCompare(toLowerCase(Head(sorted).key), toLowerCase(e.key)) <= 0
       THEN <<Head(sorted)>> \o InsertKey(Tail(sorted), e)
       ELSE <<e>> \o sorted

RECURSIVE SortKeys(_, _)
SortKeys(todo, sorted) ==
  IF todo = <<>> THEN sorted ELSE SortKeys(Tail(todo), InsertKey(sorted, Head(todo)))

\* sortedKeys.forEach((key) => finalGroupedData[key] = grouped[key])
RECURSIVE FillObject(_, _)
FillObject(todo, obj) ==
  IF todo = <<>> THEN obj ELSE FillObject(Tail(todo), ObjAdd(obj, Head(todo)))

groupAndSortOfficeData(data) ==
  LET sortedByPriority == SortEmployees(data, <<>>)
      grouped == GroupReduce(sortedByPriority, <<>>)
      sortedKeys == SortKeys(grouped, <<>>)
  IN FillObject(sortedKeys, <<>>)

\* the comparator of sortCabinetData: lower-cased city, then address
CabinetCompareCityOnly(x, y) ==
  localeCompare(toLowerCase(x.city), toLowerCase(y.city))

CabinetCompare(x, y) ==
  LET cityCompare == localeCompare(toLowerCase(x.city), toLowerCase(y.city))
  IN IF cityCompare # 0 THEN cityCompare
     ELSE localeCompare(toLowerCase(x.address), toLowerCase(y.address))

RECURSIVE InsertCabinet(_, _)
InsertCabinet(sorted, x) ==
  IF sorted = <<>> THEN <<x>>
  ELSE IF CabinetCompare(Head(sorted), x) <= 0
       THEN <<Head(sorted)>> \o InsertCabinet(Tail(sorted), x)
       ELSE <<x>> \o sorted

RECURSIVE SortCabinets(_, _)
SortCabinets(todo, sorted) ==
  IF todo = <<>> THEN sorted
  ELSE SortCabinets(Tail(todo), InsertCabinet(sorted, Head(todo)))

sortCabinetData(data) == SortCabinets(data, <<>>)

\* Object.values(office).flatMap((group) => group.employees)
RECURSIVE FlattenGroups(_)
FlattenGroups(office) ==
  IF office = <<>> THEN <<>> ELSE Head(office).employees \o FlattenGroups(Tail(office))

(***************************************************************************)
(* Client: persistent cache, view state and sync cycles of Handbook.       *)
(***************************************************************************)
VARIABLES
  store,          \* localforage under CACHE_KEY: Null or a CachedData envelope
  online,         \* navigator.onLine
  now,            \* Date.now(), in minutes
  started,        \* the mount effect has called fetchData()
  data,           \* view state: {office, cabinets}
  rawOfficeData,  \* view state: the people list that searching filters
  loadingStatus,  \* view state: the status text
  error,          \* view state: the error text, "none" for null
  lastUpdated,    \* view state: fetch time of what is shown, -1 for null
  cycPc,          \* per cycle: "idle", "removing", "getItem", "fetching",
                  \* "setItem", "settled", "aborted"
  cycForce,       \* per cycle: forceUpdate
  cycCached,      \* per cycle: the local cachedData of fetchData
  cycNewCache,    \* per cycle: the local newCache of fetchData
  cycPath,        \* history, per cycle: the branch the cycle took
  cycStoreAtStart \* history, per cycle: the store when the cycle was triggered

clientVars ==
  <<store, online, now, started, data, rawOfficeData, loadingStatus, error,
    lastUpdated, cycPc, cycForce, cycCached, cycNewCache, cycPath,
    cycStoreAtStart>>

(***************************************************************************)
(* Transform Pipeline applied to a list of people given from outside.      *)
(***************************************************************************)
VARIABLES
  inPeople,      \* the argument of groupAndSortOfficeData
  inReordered,   \* the same people in another order
  outGrouped,    \* groupAndSortOfficeData(inPeople)
  outRegrouped,  \* groupAndSortOfficeData of the flattened outGrouped
  outReordered,  \* groupAndSortOfficeData(inReordered)
  trPc,          \* "idle", "input", "grouped", "regrouped", "reordered"
  inItems,       \* the items given to filterData
  inQuery,       \* the query given to filterData
  inWider,       \* a query that inQuery is a substring of
  inKeys,        \* the field names given to filterData
  outFiltered,   \* filterData(inItems, inQuery, inKeys)
  outFilteredWider, \* filterData(inItems, inWider, inKeys)
  inCabinets,    \* the argument of sortCabinetData
  outCabinets,   \* sortCabinetData(inCabinets)
  inRows,        \* the rows of a people sheet given to the normalizer
  fnPc           \* "idle", "query", "filtered", "rooms", "sorted", "sheet",
                 \* "normalized"

functionVars ==
  <<inItems, inQuery, inWider, inKeys, outFiltered, outFilteredWider, inCabinets,
    outCabinets, inRows, fnPc>>

transformVars ==
  <<inPeople, inReordered, outGrouped, outRegrouped, outReordered, trPc, functionVars>>

(***************************************************************************)
(* Server Snapshot Cache: state.                                           *)
(***************************************************************************)
VARIABLES
  file,              \* the source: [exists, mtime, wb]; mtime numbers the edits
  cachedData,        \* the cache slot: Null or a snapshot
  lastModifiedTime,  \* the freshness key of the slot
  loadCount,         \* probe: reads of the source that were started
  reqPc,             \* per request: "idle", "reading", "loaded", "returned"
  reqModTime,        \* per request: currentModTime (0 before statSync)
  reqRead,           \* per request: what readFile delivered
  reqResult,         \* per request: the value loadHandbookData returned
  reqResp,           \* per request: the HTTP response of /api/handbook
  health,            \* cacheStatus of the last /health response
  reqChanged,        \* history: the source changed while the request ran
  prevCall,          \* history: the call that completed last, if nothing
                     \* happened since
  batch,             \* history: the reloads running since the server was idle
  everLoaded         \* history: a load has succeeded since the process started

serverVars ==
  <<file, cachedData, lastModifiedTime, loadCount, reqPc, reqModTime, reqRead,
    reqResult, reqResp, health, reqChanged, prevCall, batch, everLoaded>>

Req == 1..NReq

Null == [null |-> TRUE]

NoRead == [ok |-> FALSE, cause |-> "none"]

NoCall == [set |-> FALSE]

InFlight == {r \in Req : reqPc[r] \in {"reading", "loaded"}}

\* the snapshot stamped with the time of the read instead of currentModTime
MkSnapshotStampsRead(m, content) ==
  [timestamp |-> content.ver,
   office |-> ReadOfficeSheet(content.wb),
   cabinets |-> ReadCabinetsSheet(content.wb),
   ver |-> content.ver]

\* the HandbookData object built from a parsed workbook; ver is history: the
\* edit whose content was parsed
MkSnapshot(m, content) ==
  [timestamp |-> m,
   office |-> ReadOfficeSheet(content.wb),
   cabinets |-> ReadCabinetsSheet(content.wb),
   ver |-> content.ver]

\* cachedData && lastModifiedTime === currentModTime
CacheHitStale(cd, lmt, m) == cd # Null

CacheHit(cd, lmt, m) == cd # Null /\ lmt = m

\* cachedData = {timestamp: currentModTime, office, cabinets}
NewCacheAccumulate(prev, m, content) ==
  IF prev = Null THEN MkSnapshot(m, content)
  ELSE [MkSnapshot(m, content) EXCEPT !.office = prev.office \o @]

NewCache(prev, m, content) == MkSnapshot(m, content)

\* lastModifiedTime = currentModTime
NewKeyForgotten(prevKey, m) == prevKey

NewKey(prevKey, m) == m

\* the catch block: the slot is not touched
FailedLoadSlotDiscard(cd, lmt) == <<Null, 0>>

FailedLoadSlotKeyReset(cd, lmt) == <<cd, 0>>

FailedLoadSlot(cd, lmt) == <<cd, lmt>>

\* cacheStatus of /health
HealthCacheStatus(cd) == IF cd # Null THEN "active" ELSE "empty"

\* the two responses of /api/handbook
SuccessEnvelope(snap) == [code |-> 200, status |-> "success", data |-> snap]

ErrorEnvelope == [code |-> 500, status |-> "error", data |-> Null]

NoResp == [code |-> 0, status |-> "none", data |-> Null]

RespondEmptyIsError(snap) ==
  IF snap # Null /\ (snap.office # <<>> \/ snap.cabinets # <<>>)
  THEN SuccessEnvelope(snap) ELSE ErrorEnvelope

Respond(snap) == IF snap # Null THEN SuccessEnvelope(snap) ELSE ErrorEnvelope

\* what one reload started now and run alone would return and leave in the slot
SingleReload ==
  IF file.exists /\ ~file.wb.bad
  THEN LET snap == MkSnapshot(file.mtime, [wb |-> file.wb, ver |-> file.mtime])
       IN [result |-> snap, slot |-> <<snap, file.mtime>>]
  ELSE [result |-> Null, slot |-> <<cachedData, lastModifiedTime>>]

ServerInit ==
  /\ file \in {[exists |-> TRUE, mtime |-> 1, wb |-> wb] : wb \in {WbA, WbBad}}
  /\ cachedData = Null
  /\ lastModifiedTime = 0
  /\ loadCount = 0
  /\ reqPc = [r \in Req |-> "idle"]
  /\ reqModTime = [r \in Req |-> 0]
  /\ reqRead = [r \in Req |-> NoRead]
  /\ reqResult = [r \in Req |-> Null]
  /\ reqResp = [r \in Req |-> NoResp]
  /\ health = "none"
  /\ reqChanged = [r \in Req |-> FALSE]
  /\ prevCall = NoCall
  /\ batch = [clean |-> FALSE, members |-> {}, expect |-> [result |-> Null, slot |-> <<Null, 0>>]]
  /\ everLoaded = FALSE

(***************************************************************************)
(* Server Snapshot Cache: loadHandbookData behind GET /api/handbook.       *)
(***************************************************************************)
\* !fs.existsSync(EXCEL_FILE_PATH): return null, answered with the 500
BeginAbsent(r) ==
  /\ reqPc[r] = "idle"
  /\ ~file.exists
  /\ reqPc' = [reqPc EXCEPT ![r] = "returned"]
  /\ reqResult' = [reqResult EXCEPT ![r] = Null]
  /\ reqResp' = [reqResp EXCEPT ![r] = Respond(Null)]
  /\ prevCall' = [set |-> TRUE, clean |-> TRUE, parseFailed |-> FALSE, result |-> Null]
  /\ UNCHANGED <<clientVars, transformVars, everLoaded, file, cachedData, lastModifiedTime, loadCount, reqModTime, reqRead,
                 health, reqChanged, batch>>

\* statSync, then the slot is fresh: return cachedData
BeginHit(r) ==
  /\ reqPc[r] = "idle"
  /\ file.exists
  /\ CacheHit(cachedData, lastModifiedTime, file.mtime)
  /\ reqPc' = [reqPc EXCEPT ![r] = "returned"]
  /\ reqModTime' = [reqModTime EXCEPT ![r] = file.mtime]
  /\ reqResult' = [reqResult EXCEPT ![r] = cachedData]
  /\ reqResp' = [reqResp EXCEPT ![r] = Respond(cachedData)]
  /\ prevCall' = [set |-> TRUE, clean |-> TRUE, parseFailed |-> FALSE, result |-> cachedData]
  /\ UNCHANGED <<clientVars, transformVars, everLoaded, file, cachedData, lastModifiedTime, loadCount, reqRead, health,
                 reqChanged, batch>>

\* statSync, then the slot is empty or stale: start readFile and wait
BeginMiss(r) ==
  /\ reqPc[r] = "idle"
  /\ file.exists
  /\ ~CacheHit(cachedData, lastModifiedTime, file.mtime)
  /\ loadCount < MaxLoads
  /\ reqPc' = [reqPc EXCEPT ![r] = "reading"]
  /\ reqModTime' = [reqModTime EXCEPT ![r] = file.mtime]
  /\ loadCount' = loadCount + 1
  /\ reqChanged' = [reqChanged EXCEPT ![r] = FALSE]
  /\ prevCall' = NoCall
  /\ batch' = IF InFlight = {}
              THEN [clean |-> TRUE, members |-> {r}, expect |-> SingleReload]
              ELSE [batch EXCEPT !.members = @ \cup {r}]
  /\ UNCHANGED <<clientVars, transformVars, everLoaded, file, cachedData, lastModifiedTime, reqRead, reqResult, reqResp, health>>

\* workbook.xlsx.readFile delivers the content the file has when it is read,
\* or throws when the file is gone or is not a workbook
ReadFile(r) ==
  /\ reqPc[r] = "reading"
  /\ reqPc' = [reqPc EXCEPT ![r] = "loaded"]
  /\ reqRead' = [reqRead EXCEPT ![r] =
                   IF ~file.exists THEN [ok |-> FALSE, cause |-> "absent"]
                   ELSE IF file.wb.bad THEN [ok |-> FALSE, cause |-> "malformed"]
                   ELSE [ok |-> TRUE, cause |-> "none", wb |-> file.wb, ver |-> file.mtime]]
  /\ prevCall' = NoCall
  /\ UNCHANGED <<clientVars, transformVars, everLoaded, file, cachedData, lastModifiedTime, loadCount, reqModTime, reqResult,
                 reqResp, health, reqChanged, batch>>

\* the sheets are parsed, the slot is replaced, the snapshot is returned
Commit(r) ==
  /\ reqPc[r] = "loaded"
  /\ reqRead[r].ok
  /\ cachedData' = NewCache(cachedData, reqModTime[r], reqRead[r])
  /\ lastModifiedTime' = NewKey(lastModifiedTime, reqModTime[r])
  /\ reqPc' = [reqPc EXCEPT ![r] = "returned"]
  /\ reqResult' = [reqResult EXCEPT ![r] = cachedData']
  /\ reqResp' = [reqResp EXCEPT ![r] = Respond(cachedData')]
  /\ prevCall' = [set |-> TRUE, clean |-> ~reqChanged[r], parseFailed |-> FALSE,
                  result |-> cachedData']
  /\ everLoaded' = TRUE
  /\ UNCHANGED <<clientVars, transformVars, file, loadCount, reqModTime, reqRead, health, reqChanged, batch>>

\* readFile threw: the catch block returns null
LoadFailed(r) ==
  /\ reqPc[r] = "loaded"
  /\ ~reqRead[r].ok
  /\ cachedData' = FailedLoadSlot(cachedData, lastModifiedTime)[1]
  /\ lastModifiedTime' = FailedLoadSlot(cachedData, lastModifiedTime)[2]
  /\ reqPc' = [reqPc EXCEPT ![r] = "returned"]
  /\ reqResult' = [reqResult EXCEPT ![r] = Null]
  /\ reqResp' = [reqResp EXCEPT ![r] = Respond(Null)]
  /\ prevCall' = [set |-> TRUE, clean |-> ~reqChanged[r], parseFailed |-> TRUE,
                  result |-> Null]
  /\ UNCHANGED <<clientVars, transformVars, everLoaded, file, loadCount, reqModTime, reqRead, health, reqChanged, batch>>

\* the response is out; the slot of the request serves the next request
NextRequest(r) ==
  /\ reqPc[r] = "returned"
  /\ reqPc' = [reqPc EXCEPT ![r] = "idle"]
  /\ reqModTime' = [reqModTime EXCEPT ![r] = 0]
  /\ reqRead' = [reqRead EXCEPT ![r] = NoRead]
  /\ reqResult' = [reqResult EXCEPT ![r] = Null]
  /\ reqResp' = [reqResp EXCEPT ![r] = NoResp]
  /\ reqChanged' = [reqChanged EXCEPT ![r] = FALSE]
  /\ batch' = [batch EXCEPT !.members = @ \ {r}]
  /\ UNCHANGED <<clientVars, transformVars, everLoaded, file, cachedData, lastModifiedTime, loadCount, health, prevCall>>

\* GET /health
Health ==
  /\ health' = HealthCacheStatus(cachedData)
  /\ UNCHANGED <<clientVars, transformVars, everLoaded, file, cachedData, lastModifiedTime, loadCount, reqPc, reqModTime,
                 reqRead, reqResult, reqResp, reqChanged, prevCall, batch>>

(***************************************************************************)
(* The environment of the server: the spreadsheet is edited by hand.       *)
(***************************************************************************)
SourceChanged ==
  /\ reqChanged' = [r \in Req |-> reqChanged[r] \/ r \in InFlight]
  /\ prevCall' = NoCall
  /\ batch' = IF InFlight # {} THEN [batch EXCEPT !.clean = FALSE] ELSE batch

\* the file is saved (or created again) with new content and a later mtime
EditSource(wb) ==
  /\ file.mtime < MaxMtime
  /\ file' = [exists |-> TRUE, mtime |-> file.mtime + 1, wb |-> wb]
  /\ SourceChanged
  /\ UNCHANGED <<clientVars, transformVars, everLoaded, cachedData, lastModifiedTime, loadCount, reqPc, reqModTime, reqRead,
                 reqResult, reqResp, health>>

DeleteSource ==
  /\ file.exists
  /\ file' = [file EXCEPT !.exists = FALSE]
  /\ SourceChanged
  /\ UNCHANGED <<clientVars, transformVars, everLoaded, cachedData, lastModifiedTime, loadCount, reqPc, reqModTime, reqRead,
                 reqResult, reqResp, health>>

ServerNext ==
  \/ \E r \in Req : BeginAbsent(r)
  \/ \E r \in Req : BeginHit(r)
  \/ \E r \in Req : BeginMiss(r)
  \/ \E r \in Req : ReadFile(r)
  \/ \E r \in Req : Commit(r)
  \/ \E r \in Req : LoadFailed(r)
  \/ \E r \in Req : NextRequest(r)
  \/ Health
  \/ \E wb \in Workbooks : EditSource(wb)
  \/ DeleteSource

(***************************************************************************)
(* Client Persistent Cache and Sync Controller (Handbook).                 *)
(***************************************************************************)
Cyc == 1..NCyc

MAX_CACHE_AGE_HOURS == 12

EmptyData == [office |-> <<>>, cabinets |-> <<>>]

\* the instants, in minutes, the clock of the browser is read at: the start,
\* one minute before twelve hours later, and twelve hours later
ClockInstants == {0, 719, 720}

\* the texts of setLoadingStatus:
\*   "initial"             Загрузка данных...
\*   "checking"            Проверка данных...
\*   "updating"            Обновление данных...
\*   "attempting"          Попытка обновления...
\*   "server"              Данные успешно загружены с сервера.
\*   "network_error_cache" Ошибка сети. Загружены данные из локального кэша.
\*   "load_error"          Ошибка загрузки. Проверьте подключение к серверу.
\*   "cache_stale"         Загружены данные из кэша (<hours>ч назад, ...).
\*   "cache"               Данные загружены из кэша.
\*   "no_network_no_cache" Нет подключения к сети и нет локального кэша.
Status(text) == [text |-> text, hours |-> 0]

StaleStatus(hours) == [text |-> "cache_stale", hours |-> hours]

\* result.data of a successful response of /api/handbook
ServerResponse(m, wb) ==
  [timestamp |-> m, office |-> ReadOfficeSheet(wb), cabinets |-> ReadCabinetsSheet(wb)]

Responses == {ServerResponse(1, WbA), ServerResponse(2, WbB)}

\* the three ways the fetch fails, and error.message of each
FetchErrors == {"network", "http", "status"}

FetchErrorMessage(kind) ==
  CASE kind = "network" -> "Failed to fetch"
    [] kind = "http" -> "HTTP 500: Internal Server Error"
    [] kind = "status" -> "server message"

StorageErrorMessage == "QuotaExceededError"

\* the view state the branches of fetchData set together
View ==
  [data |-> data, lastUpdated |-> lastUpdated, rawOfficeData |-> rawOfficeData,
   loadingStatus |-> loadingStatus]

\* newData and newCache of the success branch
NewData(result) ==
  [office |-> groupAndSortOfficeData(result.office),
   cabinets |-> sortCabinetData(result.cabinets)]

NewEnvelopeSwapsTimes(result, time) ==
  [data |-> NewData(result), timestamp |-> time, fetchTime |-> result.timestamp]

NewEnvelope(result, time) ==
  [data |-> NewData(result), timestamp |-> result.timestamp, fetchTime |-> time]

\* localforage.setItem(CACHE_KEY, newCache): the value under the key is replaced
StoreWriteMerge(prev, new) ==
  IF prev = Null THEN new ELSE [new EXCEPT !.data.cabinets = prev.data.cabinets]

StoreWriteKeepsNewest(prev, new) ==
  IF prev # Null /\ prev.timestamp > new.timestamp THEN prev ELSE new

StoreWrite(prev, new) == new

\* the catch block when an envelope was read
CachedFallbackKeepsRaw(cached, view) ==
  [data |-> cached.data,
   lastUpdated |-> cached.fetchTime,
   rawOfficeData |-> view.rawOfficeData,
   loadingStatus |-> Status("network_error_cache")]

CachedFallback(cached, view) ==
  [data |-> cached.data,
   lastUpdated |-> cached.fetchTime,
   rawOfficeData |-> FlattenGroups(cached.data.office),
   loadingStatus |-> Status("network_error_cache")]

\* the catch block when no envelope was read
NoCacheFailureClears(view) ==
  [view EXCEPT !.data = EmptyData, !.loadingStatus = Status("load_error")]

NoCacheFailure(view) == [view EXCEPT !.loadingStatus = Status("load_error")]

\* catch (error) of fetchData; cachedData?.data
CatchView(cached, view) ==
  IF cached # Null THEN CachedFallback(cached, view) ELSE NoCacheFailure(view)

\* differenceInHours(new Date(), new Date(fetchTime)): the whole hours of the
\* difference, truncated; the clock counts minutes
differenceInHoursRounded(later, earlier) == (later - earlier + 30) \div 60

differenceInHours(later, earlier) == (later - earlier) \div 60

\* the branch of fetchData that runs offline without forced refresh
OfflineView(cached, view, time) ==
  IF cached # Null
  THEN LET cacheAgeHours == differenceInHours(time, cached.fetchTime)
           isStale == cacheAgeHours >= MAX_CACHE_AGE_HOURS
       IN [view EXCEPT !.data = cached.data,
                       !.lastUpdated = cached.fetchTime,
                       !.loadingStatus = IF isStale THEN StaleStatus(cacheAgeHours)
                                         ELSE Status("cache")]
  ELSE [view EXCEPT !.loadingStatus = Status("no_network_no_cache")]

SetView(v) ==
  /\ data' = v.data
  /\ lastUpdated' = v.lastUpdated
  /\ rawOfficeData' = v.rawOfficeData
  /\ loadingStatus' = v.loadingStatus

\* String.prototype.includes
includes(s, q) == \E i \in 0..(Len(s) - Len(q)) : SubSeq(s, i + 1, i + Len(q)) = q

\* filterData(items, query, keys); keys is the set of the field names
filterDataCaseSensitive(items, query, keys) ==
  IF query = <<>> THEN items
  ELSE LET lowerQuery == toLowerCase(query)
           Matches(item) == \E key \in keys : includes(item[key], lowerQuery)
       IN SelectSeq(items, Matches)

filterData(items, query, keys) ==
  IF query = <<>> THEN items
  ELSE LET lowerQuery == toLowerCase(query)
           Matches(item) == \E key \in keys : includes(toLowerCase(item[key]), lowerQuery)
       IN SelectSeq(items, Matches)

EmployeeSearchKeys == {"fullName", "position", "internalNumber"}

CabinetSearchKeys == {"city", "address", "internalNumber"}

\* the memoized views of the search box, for the value searchQuery of its state
filteredOfficeNoGuard(searchQuery) ==
  groupAndSortOfficeData(filterData(rawOfficeData, searchQuery, EmployeeSearchKeys))

\* the memo of filteredOffice as a function of its dependencies
filteredOfficeOf(office, raw, searchQuery) ==
  IF searchQuery = <<>> THEN office
  ELSE groupAndSortOfficeData(filterData(raw, searchQuery, EmployeeSearchKeys))

filteredOffice(searchQuery) == filteredOfficeOf(data.office, rawOfficeData, searchQuery)

filteredCabinets(searchQuery) == filterData(data.cabinets, searchQuery, CabinetSearchKeys)

ClientInit ==
  /\ store = Null
  /\ online = TRUE
  /\ now = 0
  /\ started = FALSE
  /\ data = EmptyData
  /\ rawOfficeData = <<>>
  /\ loadingStatus = Status("initial")
  /\ error = "none"
  /\ lastUpdated = -1
  /\ cycPc = [c \in Cyc |-> "idle"]
  /\ cycForce = [c \in Cyc |-> FALSE]
  /\ cycCached = [c \in Cyc |-> Null]
  /\ cycNewCache = [c \in Cyc |-> Null]
  /\ cycPath = [c \in Cyc |-> "none"]
  /\ cycStoreAtStart = [c \in Cyc |-> Null]

\* a new cycle takes the first place that no running cycle holds
FirstFree(c) == cycPc[c] = "idle" /\ \A d \in Cyc : d < c => cycPc[d] # "idle"

\* fetchData(forceUpdate) up to its first await, localforage.getItem
EnterFetchData(c, forceUpdate) ==
  /\ loadingStatus' = Status("checking")
  /\ error' = "none"
  /\ cycPc' = [cycPc EXCEPT ![c] = "getItem"]
  /\ cycForce' = [cycForce EXCEPT ![c] = forceUpdate]
  /\ cycCached' = [cycCached EXCEPT ![c] = Null]
  /\ cycNewCache' = [cycNewCache EXCEPT ![c] = Null]

\* the mount effect: fetchData()
StartSync(c) ==
  /\ ~started
  /\ FirstFree(c)
  /\ started' = TRUE
  /\ EnterFetchData(c, FALSE)
  /\ cycPath' = [cycPath EXCEPT ![c] = "startup"]
  /\ cycStoreAtStart' = [cycStoreAtStart EXCEPT ![c] = store]
  /\ UNCHANGED <<serverVars, transformVars, store, online, now, data, rawOfficeData, lastUpdated>>

\* handleUpdate up to its await, localforage.removeItem
HandleUpdate(c) ==
  /\ started
  /\ FirstFree(c)
  /\ cycPc' = [cycPc EXCEPT ![c] = "removing"]
  /\ cycPath' = [cycPath EXCEPT ![c] = "update"]
  /\ cycStoreAtStart' = [cycStoreAtStart EXCEPT ![c] = store]
  /\ UNCHANGED <<serverVars, transformVars, store, online, now, started, data, rawOfficeData,
                 loadingStatus, error, lastUpdated, cycForce, cycCached, cycNewCache>>

\* removeItem resolved: the envelope is gone, fetchData(true) is called
RemoveDone(c) ==
  /\ cycPc[c] = "removing"
  /\ store' = Null
  /\ EnterFetchData(c, TRUE)
  /\ UNCHANGED cycStoreAtStart
  /\ UNCHANGED <<serverVars, transformVars, online, now, started, data, rawOfficeData, lastUpdated,
                 cycPath>>

\* removeItem rejected: handleUpdate rejects, fetchData is never called
RemoveFailed(c) ==
  /\ cycPc[c] = "removing"
  /\ cycPc' = [cycPc EXCEPT ![c] = "aborted"]
  /\ cycPath' = [cycPath EXCEPT ![c] = "remove_failed"]
  /\ cycStoreAtStart' = [cycStoreAtStart EXCEPT ![c] = Null]
  /\ UNCHANGED <<serverVars, transformVars, store, online, now, started, data, rawOfficeData,
                 loadingStatus, error, lastUpdated, cycForce, cycCached, cycNewCache>>

\* getItem settled (a rejection leaves cachedData null); online or forced:
\* fetch(API_URL) is called
GetItemThenFetch(c, readOk) ==
  /\ cycPc[c] = "getItem"
  /\ online \/ cycForce[c]
  /\ cycCached' = [cycCached EXCEPT ![c] = IF readOk THEN store ELSE Null]
  /\ loadingStatus' = IF online THEN Status("updating") ELSE Status("attempting")
  /\ cycPc' = [cycPc EXCEPT ![c] = "fetching"]
  /\ cycPath' = [cycPath EXCEPT ![c] = IF readOk THEN "fetch" ELSE "fetch_read_failed"]
  /\ UNCHANGED cycStoreAtStart
  /\ UNCHANGED <<serverVars, transformVars, store, online, now, started, data, rawOfficeData, error,
                 lastUpdated, cycForce, cycNewCache>>

\* getItem settled; offline and not forced: the cache is served, or nothing
GetItemThenOffline(c, readOk) ==
  /\ cycPc[c] = "getItem"
  /\ ~(online \/ cycForce[c])
  /\ LET cached == IF readOk THEN store ELSE Null
     IN /\ cycCached' = [cycCached EXCEPT ![c] = cached]
        /\ SetView(OfflineView(cached, View, now))
        /\ error' = IF cached # Null THEN error ELSE "data unavailable"
        /\ cycPath' = [cycPath EXCEPT ![c] =
                         IF cached # Null THEN "offline_cache" ELSE "offline_none"]
  /\ cycPc' = [cycPc EXCEPT ![c] = "settled"]
  /\ cycStoreAtStart' = [cycStoreAtStart EXCEPT ![c] = Null]
  /\ UNCHANGED <<serverVars, transformVars, store, online, now, started, cycForce, cycNewCache>>

\* the fetch failed: network error, non-OK status, or status # "success"
FetchFailed(c, kind) ==
  /\ cycPc[c] = "fetching"
  /\ error' = FetchErrorMessage(kind)
  /\ SetView(CatchView(cycCached[c], View))
  /\ cycPc' = [cycPc EXCEPT ![c] = "settled"]
  /\ cycPath' = [cycPath EXCEPT ![c] =
                   IF cycCached[c] # Null THEN "fetch_failed_cache"
                   ELSE "fetch_failed_no_cache"]
  /\ cycStoreAtStart' = [cycStoreAtStart EXCEPT ![c] = Null]
  /\ UNCHANGED <<serverVars, transformVars, store, online, now, started, cycForce, cycCached,
                 cycNewCache>>

\* the fetch succeeded: transform, setRawOfficeData, start localforage.setItem
FetchSucceeded(c, result) ==
  /\ cycPc[c] = "fetching"
  /\ rawOfficeData' = result.office
  /\ cycNewCache' = [cycNewCache EXCEPT ![c] = NewEnvelope(result, now)]
  /\ cycPc' = [cycPc EXCEPT ![c] = "setItem"]
  /\ cycStoreAtStart' = [cycStoreAtStart EXCEPT ![c] = Null]
  /\ UNCHANGED <<serverVars, transformVars, store, online, now, started, data, loadingStatus, error,
                 lastUpdated, cycForce, cycCached, cycPath>>

\* setItem resolved: the envelope is replaced, the new data is shown
SetItemDone(c) ==
  /\ cycPc[c] = "setItem"
  /\ store' = StoreWrite(store, cycNewCache[c])
  /\ data' = cycNewCache[c].data
  /\ lastUpdated' = cycNewCache[c].fetchTime
  /\ loadingStatus' = Status("server")
  /\ cycPc' = [cycPc EXCEPT ![c] = "settled"]
  /\ cycPath' = [cycPath EXCEPT ![c] = "server"]
  /\ UNCHANGED cycStoreAtStart
  /\ UNCHANGED <<serverVars, transformVars, online, now, started, rawOfficeData, error, cycForce,
                 cycCached, cycNewCache>>

\* setItem rejected inside the try block: the same catch as a failed fetch
SetItemFailed(c) ==
  /\ cycPc[c] = "setItem"
  /\ error' = StorageErrorMessage
  /\ SetView(CatchView(cycCached[c], View))
  /\ cycPc' = [cycPc EXCEPT ![c] = "settled"]
  /\ cycPath' = [cycPath EXCEPT ![c] = "write_failed"]
  /\ UNCHANGED cycStoreAtStart
  /\ UNCHANGED <<serverVars, transformVars, store, online, now, started, cycForce, cycCached,
                 cycNewCache>>

\* a cycle that ended leaves its place to the next one
ReleaseCycle(c) ==
  /\ cycPc[c] \in {"settled", "aborted"}
  /\ cycPc' = [cycPc EXCEPT ![c] = "idle"]
  /\ cycForce' = [cycForce EXCEPT ![c] = FALSE]
  /\ cycCached' = [cycCached EXCEPT ![c] = Null]
  /\ cycNewCache' = [cycNewCache EXCEPT ![c] = Null]
  /\ cycPath' = [cycPath EXCEPT ![c] = "none"]
  /\ cycStoreAtStart' = [cycStoreAtStart EXCEPT ![c] = Null]
  /\ UNCHANGED <<serverVars, transformVars, store, online, now, started, data, rawOfficeData,
                 loadingStatus, error, lastUpdated>>

(***************************************************************************)
(* The environment of the client.                                          *)
(***************************************************************************)
NetworkChange ==
  /\ online' = ~online
  /\ UNCHANGED cycStoreAtStart
  /\ UNCHANGED <<serverVars, transformVars, store, now, started, data, rawOfficeData, loadingStatus,
                 error, lastUpdated, cycPc, cycForce, cycCached, cycNewCache, cycPath>>

Tick ==
  /\ \E t \in ClockInstants : t > now /\ now' = t
  /\ UNCHANGED cycStoreAtStart
  /\ UNCHANGED <<serverVars, transformVars, store, online, started, data, rawOfficeData, loadingStatus,
                 error, lastUpdated, cycPc, cycForce, cycCached, cycNewCache, cycPath>>

\* the page is loaded again: the component state is new, the store stays
ReloadPage ==
  /\ started
  /\ started' = FALSE
  /\ data' = EmptyData
  /\ rawOfficeData' = <<>>
  /\ loadingStatus' = Status("initial")
  /\ error' = "none"
  /\ lastUpdated' = -1
  /\ cycPc' = [c \in Cyc |-> "idle"]
  /\ cycForce' = [c \in Cyc |-> FALSE]
  /\ cycCached' = [c \in Cyc |-> Null]
  /\ cycNewCache' = [c \in Cyc |-> Null]
  /\ cycPath' = [c \in Cyc |-> "none"]
  /\ cycStoreAtStart' = [c \in Cyc |-> Null]
  /\ UNCHANGED <<serverVars, transformVars, store, online, now>>

ClientNext ==
  \/ \E c \in Cyc : StartSync(c)
  \/ \E c \in Cyc : HandleUpdate(c)
  \/ \E c \in Cyc : RemoveDone(c)
  \/ \E c \in Cyc : RemoveFailed(c)
  \/ \E c \in Cyc, readOk \in BOOLEAN : GetItemThenFetch(c, readOk)
  \/ \E c \in Cyc, readOk \in BOOLEAN : GetItemThenOffline(c, readOk)
  \/ \E c \in Cyc, kind \in FetchErrors : FetchFailed(c, kind)
  \/ \E c \in Cyc, result \in Responses : FetchSucceeded(c, result)
  \/ \E c \in Cyc : SetItemDone(c)
  \/ \E c \in Cyc : SetItemFailed(c)
  \/ \E c \in Cyc : ReleaseCycle(c)
  \/ NetworkChange
  \/ Tick
  \/ ReloadPage

(***************************************************************************)
(* Specifications: the server with its source, and the client.             *)
(***************************************************************************)
vars == <<serverVars, clientVars, transformVars>>

\* no filter, room sort or sheet is being worked on outside the program
FunctionIdle ==
  /\ inItems = <<>>
  /\ inQuery = <<>>
  /\ inWider = <<>>
  /\ inKeys = {}
  /\ outFiltered = <<>>
  /\ outFilteredWider = <<>>
  /\ inCabinets = <<>>
  /\ outCabinets = <<>>
  /\ inRows = <<>>
  /\ fnPc = "idle"

\* no list of people is being transformed outside the sync cycles
TransformIdle ==
  /\ inPeople = <<>>
  /\ inReordered = <<>>
  /\ outGrouped = <<>>
  /\ outRegrouped = <<>>
  /\ outReordered = <<>>
  /\ trPc = "idle"
  /\ FunctionIdle

Init == ServerInit /\ ClientInit /\ TransformIdle

Next == ServerNext

Spec == Init /\ [][Next]_vars

ClientSpec == Init /\ [][ClientNext]_vars

\* the awaited storage operations of a cycle settle: localforage resolves or
\* rejects getItem, setItem and removeItem, and the continuation then runs
StorageSettles(c) ==
  \/ RemoveDone(c)
  \/ RemoveFailed(c)
  \/ \E readOk \in BOOLEAN : GetItemThenFetch(c, readOk)
  \/ \E readOk \in BOOLEAN : GetItemThenOffline(c, readOk)
  \/ SetItemDone(c)
  \/ SetItemFailed(c)

\* the client under that scheduling; nothing makes fetch(API_URL) settle, the
\* server being free never to answer
ClientFairSpec == ClientSpec /\ \A c \in Cyc : WF_vars(StorageSettles(c))

(***************************************************************************)
(* The Transform Pipeline on its own: people lists of every order.         *)
(***************************************************************************)
Person(dept, priority, name, general) ==
  [department |-> dept, sortPriority |-> priority, position |-> sMgr,
   fullName |-> name, internalNumber |-> s101, generalNumber |-> general]

\* people of departments "Hr", "hr", "2", "10", "Sas" and of none; the first
\* two agree in priority and lower-cased name
People ==
  {Person(sHr, 1, sAbe, s100),
   Person(sHr, 1, <<Chr.A, Chr.b>>, s200),
   Person(<<Chr.h, Chr.r>>, 1, sJane, s100),
   Person(<<>>, DefaultPriority, sAbe, <<>>),
   Person(sTwo, 1, sZed, s100),
   Person(<<Chr.d1, Chr.d0>>, 2, sAbe, <<>>),
   Person(sSales, 2, sJane, s200),
   Person(sHr, DefaultPriority, sJane, s100)}

PeopleLists == UNION {[1..n -> People] : n \in 0..MaxPeople}

Reorderings(n) == {f \in [1..n -> 1..n] : \A i, j \in 1..n : f[i] = f[j] => i = j}

\* the queries: the strings of at most MaxQuery characters
QueryChars == {Chr.a, Chr.A, Chr.b, Chr.d1}

Queries == UNION {[1..n -> QueryChars] : n \in 0..MaxQuery}

Substrings(q) == {SubSeq(q, i, j) : i \in 1..(Len(q) + 1), j \in 0..Len(q)}

\* the key lists filterData is called with, and two shorter ones
SearchKeySets == {EmployeeSearchKeys, {"fullName"}, {"position", "internalNumber"}}

ItemLists == UNION {[1..n -> People] : n \in 0..MaxItems}

\* rooms in "Zr" and "As", one in "zr", and two that differ in the number only
Rooms ==
  {[city |-> sZurich, address |-> sMain, internalNumber |-> <<Chr.d1>>],
   [city |-> sAustin, address |-> sFirst, internalNumber |-> <<Chr.d2>>],
   [city |-> <<Chr.z, Chr.r>>, address |-> sFirst, internalNumber |-> <<Chr.d1>>],
   [city |-> sAustin, address |-> sMain, internalNumber |-> <<Chr.d1>>],
   [city |-> sAustin, address |-> sMain, internalNumber |-> <<Chr.d9>>]}

RoomLists == UNION {[1..n -> Rooms] : n \in 0..MaxRooms}

\* rows of a people sheet, every name once: priority cells "1", "2", "0" and
\* "100", an absent one, a non-numeric one, and a row of empty cells
SheetRows ==
  {<<sSales, sOne, sMgr, sJane, s101, s100>>,
   <<sSales, sTwo, sMgr, sZed, s101, s100>>,
   <<sSales, <<Chr.d0>>, sMgr, <<Chr.b>>, s101, s100>>,
   <<sSales, s100, sMgr, <<Chr.h>>, s101, s100>>,
   <<sSales, <<>>, sMgr, sAbe>>,
   <<sSales, sMgr, sMgr, <<Chr.z>>, s101, s100>>,
   EmptyRow}

\* the header row, then at most MaxRows rows
Sheets == {<<Hdr>> \o body : body \in UNION {[1..n -> SheetRows] : n \in 0..MaxRows}}

\* a list of people is given to the grouping, or items, two queries and keys
\* to the filter; the server and the client stay as constructed
TransformInit ==
  /\ inReordered = <<>>
  /\ outGrouped = <<>>
  /\ outRegrouped = <<>>
  /\ outReordered = <<>>
  /\ outFiltered = <<>>
  /\ outFilteredWider = <<>>
  /\ outCabinets = <<>>
  /\ \/ /\ trPc = "input"
        /\ inPeople \in PeopleLists
        /\ fnPc = "idle"
        /\ inItems = <<>> /\ inQuery = <<>> /\ inWider = <<>> /\ inKeys = {}
        /\ inCabinets = <<>> /\ inRows = <<>>
     \/ /\ trPc = "idle"
        /\ inPeople = <<>>
        /\ fnPc = "query"
        /\ inItems \in ItemLists
        /\ inWider \in Queries
        /\ inQuery \in Substrings(inWider)
        /\ inKeys \in SearchKeySets
        /\ inCabinets = <<>> /\ inRows = <<>>
     \/ /\ trPc = "idle"
        /\ inPeople = <<>>
        /\ fnPc = "sheet"
        /\ inRows \in Sheets
        /\ inItems = <<>> /\ inQuery = <<>> /\ inWider = <<>> /\ inKeys = {}
        /\ inCabinets = <<>>
     \/ /\ trPc = "idle"
        /\ inPeople = <<>>
        /\ fnPc = "rooms"
        /\ inCabinets \in RoomLists
        /\ inItems = <<>> /\ inQuery = <<>> /\ inWider = <<>> /\ inKeys = {}
        /\ inRows = <<>>

\* groupAndSortOfficeData(inPeople)
Group ==
  /\ trPc = "input"
  /\ outGrouped' = groupAndSortOfficeData(inPeople)
  /\ trPc' = "grouped"
  /\ UNCHANGED <<serverVars, clientVars, functionVars, inPeople, inReordered,
                 outRegrouped, outReordered>>

\* the grouped output is flattened and grouped again
Regroup ==
  /\ trPc = "grouped"
  /\ outRegrouped' = groupAndSortOfficeData(FlattenGroups(outGrouped))
  /\ trPc' = "regrouped"
  /\ UNCHANGED <<serverVars, clientVars, functionVars, inPeople, inReordered,
                 outGrouped, outReordered>>

\* the same people arrive in the order f and are grouped
GroupReordered(f) ==
  /\ trPc = "regrouped"
  /\ inReordered' = [i \in 1..Len(inPeople) |-> inPeople[f[i]]]
  /\ outReordered' = groupAndSortOfficeData(inReordered')
  /\ trPc' = "reordered"
  /\ UNCHANGED <<serverVars, clientVars, functionVars, inPeople, outGrouped,
                 outRegrouped>>

\* filterData over the items, for the query and for the wider query
Filter ==
  /\ fnPc = "query"
  /\ outFiltered' = filterData(inItems, inQuery, inKeys)
  /\ outFilteredWider' = filterData(inItems, inWider, inKeys)
  /\ fnPc' = "filtered"
  /\ UNCHANGED <<serverVars, clientVars, inPeople, inReordered, outGrouped, outRegrouped,
                 outReordered, trPc, inItems, inQuery, inWider, inKeys, inCabinets,
                 outCabinets, inRows>>

\* sortCabinetData(inCabinets): [...data] is sorted, data is left as it was
SortRooms ==
  /\ fnPc = "rooms"
  /\ outCabinets' = sortCabinetData(inCabinets)
  /\ inCabinets' = inCabinets
  /\ fnPc' = "sorted"
  /\ UNCHANGED <<serverVars, clientVars, inPeople, inReordered, outGrouped, outRegrouped,
                 outReordered, trPc, inItems, inQuery, inWider, inKeys, outFiltered,
                 outFilteredWider, inRows>>

\* the rows of the people sheet are normalized; the records are what the
\* client then groups
Normalize ==
  /\ fnPc = "sheet"
  /\ inPeople' = ReadOfficeRows(inRows, 1)
  /\ trPc' = "input"
  /\ fnPc' = "normalized"
  /\ UNCHANGED <<serverVars, clientVars, inReordered, outGrouped, outRegrouped,
                 outReordered, inItems, inQuery, inWider, inKeys, outFiltered,
                 outFilteredWider, inCabinets, outCabinets, inRows>>

TransformNext ==
  \/ Group
  \/ Regroup
  \/ \E f \in Reorderings(Len(inPeople)) : GroupReordered(f)
  \/ Filter
  \/ SortRooms
  \/ Normalize

TransformStart == ServerInit /\ ClientInit /\ TransformInit

TransformSpec == TransformStart /\ [][TransformNext]_vars

(***************************************************************************)
(* Properties of the server snapshot cache.                                *)
(***************************************************************************)
\* request r begins in this step
Begins(r) == reqPc[r] = "idle" /\ reqPc'[r] # "idle"

\* the last call has just completed, nothing has happened since, and the
\* source did not change while it ran
AfterQuietCall == prevCall.set /\ prevCall.clean

\* C1 (as stated): of two consecutive calls of loadHandbookData with the
\* modification time of the source unchanged, the second starts no read of
\* the source and returns the same data as the first
C1_Consecutive_Orig ==
  [][\A r \in Req :
       AfterQuietCall /\ Begins(r)
         => /\ loadCount' = loadCount
            /\ reqPc'[r] = "returned"
            /\ reqResult'[r] = prevCall.result]_vars

\* C1 (amended): the same, for a first call whose parse did not throw
C1_Consecutive ==
  [][\A r \in Req :
       AfterQuietCall /\ ~prevCall.parseFailed /\ Begins(r)
         => /\ loadCount' = loadCount
            /\ reqPc'[r] = "returned"
            /\ reqResult'[r] = prevCall.result]_vars

\* a second call served from the slot the first call filled by a reload
C1_Witness ==
  \E r1, r2 \in Req :
    /\ r1 # r2
    /\ reqPc[r1] = "returned" /\ reqRead[r1].ok
    /\ reqPc[r2] = "returned" /\ reqRead[r2] = NoRead
    /\ reqResult[r2] # Null /\ reqResult[r2] = reqResult[r1]
    /\ loadCount = 1

\* C2: a call that succeeds never returns content older than the edit that
\* its freshness key, read when the call began, identifies
C2_NotOlderThanKey ==
  \A r \in Req :
    reqPc[r] = "returned" /\ reqResult[r] # Null => reqResult[r].ver >= reqModTime[r]

\* a cache hit and a reload that overlapped an edit have both succeeded
C2_Witness ==
  \E r1, r2 \in Req :
    /\ reqPc[r1] = "returned" /\ reqResult[r1] # Null /\ reqRead[r1] = NoRead
    /\ reqPc[r2] = "returned" /\ reqResult[r2] # Null /\ reqRead[r2].ok
    /\ reqChanged[r2]

\* C3: the freshness key of the cache slot never decreases
C3_KeyMonotonic == [][lastModifiedTime' >= lastModifiedTime]_vars

\* C4: requests that all reload while the source does not change return
\* equal snapshots and leave the slot that a single reload would leave
C4_ReloadsIdempotent ==
  batch.clean =>
    /\ \A r \in batch.members :
         reqPc[r] = "returned" => reqResult[r] = batch.expect.result
    /\ (InFlight = {} /\ batch.members # {}
          => <<cachedData, lastModifiedTime>> = batch.expect.slot)

\* two requests have both reloaded the unchanged source and both succeeded
C4_Witness ==
  /\ batch.clean
  /\ InFlight = {}
  /\ Cardinality(batch.members) >= 2
  /\ \A r \in batch.members : reqRead[r].ok /\ reqResult[r] # Null

\* request r completes in this step because the source is absent or the
\* read of it threw
FailsNow(r) ==
  \/ reqPc[r] = "idle" /\ ~file.exists /\ reqPc'[r] # "idle"
  \/ reqPc[r] = "loaded" /\ ~reqRead[r].ok /\ reqPc'[r] = "returned"

\* C5: a call that finds the source absent or unreadable returns null, is
\* answered with the error envelope and leaves the slot as it was: the slot
\* changes only in the step in which a reload that read the source commits
C5_FailureKeepsSlot ==
  /\ [][\A r \in Req :
          FailsNow(r)
            => /\ reqResult'[r] = Null
               /\ reqResp'[r] = ErrorEnvelope
               /\ cachedData' = cachedData
               /\ lastModifiedTime' = lastModifiedTime]_vars
  /\ [][cachedData' # cachedData \/ lastModifiedTime' # lastModifiedTime
          => \E r \in Req :
               reqPc[r] = "loaded" /\ reqRead[r].ok /\ reqPc'[r] = "returned"]_vars

\* a request was answered with the error while a snapshot is in the slot
C5_Witness ==
  \E r \in Req :
    /\ reqPc[r] = "returned"
    /\ reqResp[r] = ErrorEnvelope
    /\ reqRead[r].cause \in {"absent", "malformed"}
    /\ cachedData # Null

\* the reload of request r fails in this step because the source is malformed
MalformedFailsNow(r) ==
  reqPc[r] = "loaded" /\ reqRead[r].cause = "malformed" /\ reqPc'[r] = "returned"

\* C6 (as stated): a reload that fails on a malformed source empties the
\* slot, so that the health path reports the cache as empty
C6_Discards_Orig ==
  [][\A r \in Req :
       MalformedFailsNow(r)
         => cachedData' = Null /\ HealthCacheStatus(cachedData') = "empty"]_vars

\* C6 (amended): a reload that fails on a malformed source keeps the slot,
\* the health path reports what it reported before, and while the source is
\* malformed no request is served from the slot
C6_Preserves ==
  /\ [][\A r \in Req :
          MalformedFailsNow(r)
            => /\ cachedData' = cachedData
               /\ lastModifiedTime' = lastModifiedTime
               /\ HealthCacheStatus(cachedData') = HealthCacheStatus(cachedData)]_vars
  /\ [](file.exists /\ file.wb.bad
          => ~CacheHit(cachedData, lastModifiedTime, file.mtime))

\* a reload failed on a malformed source and the health path says active
C6_Witness ==
  \E r \in Req :
    /\ reqPc[r] = "returned"
    /\ reqRead[r].cause = "malformed"
    /\ cachedData # Null
    /\ health = "active"
    /\ file.exists /\ file.wb.bad

(***************************************************************************)
(* Properties of the client sync cycle.                                    *)
(***************************************************************************)
\* the fetch of cycle c fails in this step
FetchFailsNow(c) == cycPc[c] = "fetching" /\ cycPc'[c] = "settled"

\* C7: when the fetch fails and an envelope was read, the view shows the
\* data of the envelope unchanged, the list that searching filters is the
\* concatenation of its groups, and the status is the network-error text
C7_FallbackToEnvelope ==
  [][\A c \in Cyc :
       FetchFailsNow(c) /\ cycCached[c] # Null
         => /\ data' = cycCached[c].data
            /\ rawOfficeData' = FlattenGroups(cycCached[c].data.office)
            /\ loadingStatus' = Status("network_error_cache")
            /\ loadingStatus' # Status("load_error")]_vars

\* a cycle has fallen back to an envelope with two groups after a failed
\* fetch
C7_Witness ==
  \E c \in Cyc :
    /\ cycPc[c] = "settled"
    /\ cycPath[c] = "fetch_failed_cache"
    /\ Len(cycCached[c].data.office) = 2
    /\ data = cycCached[c].data
    /\ loadingStatus = Status("network_error_cache")

\* C8 (as stated): after a failed fetch with no envelope the status is the
\* load-error text and the view holds no data
C8_NoData_Orig ==
  [][\A c \in Cyc :
       FetchFailsNow(c) /\ cycCached[c] = Null
         => loadingStatus' = Status("load_error") /\ data' = EmptyData]_vars

\* C8 (amended): after a failed fetch with no envelope the status is the
\* load-error text and the cycle leaves the data of the view as it was
C8_ViewUntouched ==
  [][\A c \in Cyc :
       FetchFailsNow(c) /\ cycCached[c] = Null
         => /\ loadingStatus' = Status("load_error")
            /\ data' = data
            /\ rawOfficeData' = rawOfficeData
            /\ lastUpdated' = lastUpdated]_vars

\* a forced refresh has failed with no envelope while data is on display
C8_Witness ==
  \E c \in Cyc :
    /\ cycPc[c] = "settled"
    /\ cycPath[c] = "fetch_failed_no_cache"
    /\ cycForce[c]
    /\ loadingStatus = Status("load_error")
    /\ data # EmptyData

\* the write of the new envelope of cycle c fails in this step
WriteFailsNow(c) ==
  cycPc[c] = "setItem" /\ cycPc'[c] = "settled" /\ cycPath'[c] = "write_failed"

\* C9: when the fetch succeeded and the write of the envelope fails, the
\* fetched data is displayed with the loaded-from-server status and no error
C9_WriteFailureHidden ==
  [][\A c \in Cyc :
       WriteFailsNow(c)
         => /\ data' = cycNewCache[c].data
            /\ loadingStatus' = Status("server")
            /\ error' = "none"]_vars

\* C10: a sync that is online or forced issues its fetch even if reading or
\* removing the envelope throws
C10_FetchDespiteCacheFailure ==
  /\ [][\A c \in Cyc :
          cycPc[c] = "getItem" /\ cycPc'[c] # "getItem" /\ (online \/ cycForce[c])
            => cycPc'[c] = "fetching"]_vars
  /\ [][\A c \in Cyc :
          cycPc[c] = "removing" /\ cycPc'[c] # "removing"
            => cycPc'[c] \in {"getItem", "fetching"}]_vars

(***************************************************************************)
(* Properties of the client: fallback, replacement, staleness, settling.   *)
(***************************************************************************)
\* C11: when an envelope was in the store as a sync was triggered (the mount
\* effect or handleUpdate) and the fetch of that sync fails, the sync ends
\* showing the data of that envelope and the envelope is still in the store
C11_FailedFetchFallsBack ==
  [][\A c \in Cyc :
       (FetchFailsNow(c) /\ cycStoreAtStart[c] # Null) =>
         /\ data' = cycStoreAtStart[c].data
         /\ store' = cycStoreAtStart[c]]_vars

\* the fetch of cycle c succeeds in this step
FetchSucceedsNow(c) == cycPc[c] = "fetching" /\ cycPc'[c] = "setItem"

\* the envelope write of cycle c resolves in this step
WriteDoneNow(c) == cycPc[c] = "setItem" /\ cycPc'[c] = "settled" /\ cycPath'[c] = "server"

DerivesFrom(env, result) ==
  /\ env.data.office = groupAndSortOfficeData(result.office)
  /\ env.data.cabinets = sortCabinetData(result.cabinets)
  /\ env.timestamp = result.timestamp

\* C13: whenever the store holds an envelope, its data and its timestamp come
\* from one single server response, never mixed from two
C13_EnvelopeFromOneResponse ==
  store # Null => \E result \in Responses : DerivesFrom(store, result)

\* one cycle has written its envelope over the envelope of another response
\* while a second cycle holds a third envelope ready to write
C13_Witness ==
  \E c, d \in Cyc :
    /\ c # d
    /\ cycPc[c] = "settled" /\ cycPath[c] = "server"
    /\ store = cycNewCache[c]
    /\ cycCached[c] # Null /\ cycCached[c].timestamp # store.timestamp
    /\ cycPc[d] = "setItem"
    /\ cycNewCache[d].timestamp # store.timestamp

\* C14: offline without forced refresh and with an envelope read, the data of
\* the envelope is shown, and the stale warning is shown exactly when twelve
\* whole hours or more have passed since fetchTime
C14_StaleExactlyAtMaxAge ==
  [][\A c \in Cyc :
       (cycPc[c] = "getItem" /\ cycPc'[c] = "settled" /\ cycCached'[c] # Null) =>
         /\ data' = cycCached'[c].data
         /\ loadingStatus'.text \in {"cache", "cache_stale"}
         /\ (loadingStatus'.text = "cache_stale") <=>
              (now - cycCached'[c].fetchTime >= MAX_CACHE_AGE_HOURS * 60)]_vars

\* an envelope exactly twelve hours old is served offline with the warning
C14_Witness ==
  \E c \in Cyc :
    /\ cycPc[c] = "settled" /\ cycPath[c] = "offline_cache"
    /\ now - cycCached[c].fetchTime = MAX_CACHE_AGE_HOURS * 60
    /\ loadingStatus = StaleStatus(MAX_CACHE_AGE_HOURS)
    /\ data = cycCached[c].data

\* C15: every cycle of fetchData that starts ends at a return with a definite
\* status (or with the page loaded again), whatever the server does, a server
\* that never answers included
C15_EveryCycleSettles ==
  \A c \in Cyc :
    (cycPc[c] \in {"getItem", "fetching", "setItem"}) ~> (cycPc[c] \in {"settled", "idle"})

(***************************************************************************)
(* Properties of the Transform Pipeline.                                   *)
(***************************************************************************)
\* C16: grouping is idempotent: the grouped output, flattened and grouped
\* again, is the same grouped output (keys, key order, members, member
\* order, shared extension of every group)
C16_GroupingIdempotent ==
  trPc \in {"regrouped", "reordered"} => outRegrouped = outGrouped

\* three people of two departments, rearranged by the grouping, were grouped,
\* flattened and grouped again
C16_Witness ==
  /\ trPc = "regrouped"
  /\ Len(inPeople) = 3
  /\ Len(outGrouped) = 2
  /\ FlattenGroups(outGrouped) # inPeople
  /\ outRegrouped = outGrouped

\* C17: the grouped output depends on the people only, not on the order they
\* arrive in: every reordering of the input gives the same output
C17_OrderIndependent ==
  trPc = "reordered" => outReordered = outGrouped

\* the number of places of sequence seq that hold x
Occurrences(seq, x) == Cardinality({i \in 1..Len(seq) : seq[i] = x})

\* the group key of a person: the department, or the sentinel for none
KeyOf(employee) ==
  IF employee.department = <<>> THEN NoDepartment ELSE employee.department

\* C18: in every group the members are in ascending order of (priority,
\* lower-cased name), and the department keys of the output are in
\* case-insensitive ascending order
C18_MembersAndKeysOrdered ==
  trPc # "input" /\ trPc # "idle" =>
    /\ \A g \in 1..Len(outGrouped) :
         \A i, j \in 1..Len(outGrouped[g].employees) :
           i < j => EmployeeCompare(outGrouped[g].employees[i],
                                    outGrouped[g].employees[j]) <= 0
    /\ \A g, h \in 1..Len(outGrouped) :
         g < h => localeCompare(toLowerCase(outGrouped[g].key),
                                toLowerCase(outGrouped[h].key)) <= 0

C28_NoRawErrorInView ==
  /\ \A kind \in FetchErrors : error # FetchErrorMessage(kind)
  /\ error # StorageErrorMessage

\* C30: when two overlapping cycles both fetch successfully, each write puts
\* the whole envelope of the writing cycle in the store, so the store holds
\* the envelope of the cycle that wrote last, never a mixture of the two
C30_LastWriterWins ==
  [][\A c, d \in Cyc :
       (/\ c # d
        /\ WriteDoneNow(c)
        /\ cycPc[d] = "settled" /\ cycPath[d] = "server"
        /\ store = cycNewCache[d]) =>
         /\ store' = cycNewCache[c]
         /\ cycPc'[d] = "settled"]_vars

\* both cycles read the store before either wrote, both fetched and wrote,
\* and the store holds the envelope of the second writer, which differs from
\* that of the first in data, timestamp and fetch time
C30_Witness ==
  \E c, d \in Cyc :
    /\ c # d
    /\ cycPc[c] = "settled" /\ cycPath[c] = "server"
    /\ cycPc[d] = "settled" /\ cycPath[d] = "server"
    /\ cycCached[c] # cycNewCache[d] /\ cycCached[d] # cycNewCache[c]
    /\ cycNewCache[c].data # cycNewCache[d].data
    /\ cycNewCache[c].timestamp < cycNewCache[d].timestamp
    /\ cycNewCache[c].fetchTime # cycNewCache[d].fetchTime
    /\ store = cycNewCache[c]

\* no cycle is between its first await and its end
AllCyclesSettled == \A c \in Cyc : cycPc[c] \in {"idle", "settled", "aborted"}

\* C31: once all overlapping sync cycles have settled and at least one of
\* them wrote an envelope, the data shown in the view is the data of the
\* envelope in the persistent store: a cycle whose fetch fails never puts an
\* older envelope, read before another cycle stored and displayed a newer
\* one, over the view
C31_ViewMatchesStore ==
  (/\ AllCyclesSettled
   /\ \E c \in Cyc : cycPc[c] = "settled" /\ cycPath[c] = "server"
   /\ store # Null) =>
     data = store.data

\* the fetchData call of cycle c ends in this step on the offline branch
OfflineSettlesNow(c) == cycPc[c] = "getItem" /\ cycPc'[c] = "settled"

\* removeItem of handleUpdate resolves in this step, before fetchData is called
RemoveDoneNow(c) == cycPc[c] = "removing" /\ cycPc'[c] = "getItem"

\* C32: a fetchData cycle writes the persistent store only on the
\* fetch-success path: a cycle whose fetch fails and a cycle that runs
\* offline without forced refresh leave the stored envelope exactly as it
\* was, and a write puts the whole new envelope, never a part of one
C32_StoreWrittenOnlyOnSuccess ==
  [][/\ \A c \in Cyc :
          (FetchFailsNow(c) \/ OfflineSettlesNow(c) \/ WriteFailsNow(c)) => store' = store
     /\ \A c \in Cyc : WriteDoneNow(c) => store' = cycNewCache[c]
     /\ store' # store =>
          \E c \in Cyc : WriteDoneNow(c) \/ RemoveDoneNow(c)]_vars

\* a cycle read an envelope, its fetch failed, and the envelope is still the
\* stored one; before that a successful cycle had replaced an older envelope
C32_Witness ==
  \E c \in Cyc :
    /\ cycPc[c] = "settled" /\ cycPath[c] = "fetch_failed_cache"
    /\ store # Null /\ store = cycCached[c]
    /\ data = store.data
    /\ store.timestamp = 2

(***************************************************************************)
(* Properties of the search.                                               *)
(***************************************************************************)
\* C20: filtering with the empty query is the identity: filterData returns
\* all items in their order, the filtered rooms are the displayed rooms and
\* the filtered people view is the displayed grouped people
C20_EmptyQueryIsIdentity ==
  /\ filterData(rawOfficeData, <<>>, EmployeeSearchKeys) = rawOfficeData
  /\ filterData(data.cabinets, <<>>, CabinetSearchKeys) = data.cabinets
  /\ filteredCabinets(<<>>) = data.cabinets
  /\ filteredOffice(<<>>) = data.office

\* people and rooms are displayed from the cache, the searched list being
\* empty, and the views of the empty query show them all
C20_Witness ==
  /\ data.office # <<>>
  /\ data.cabinets # <<>>
  /\ rawOfficeData = <<>>
  /\ filteredOffice(<<>>) = data.office
  /\ filteredCabinets(<<>>) = data.cabinets

\* text s, lower-cased, contains query q, lower-cased
ContainsLowered(s, q) ==
  \E i \in 1..(Len(s) + 1) :
    \A k \in 1..Len(q) : i + k - 1 <= Len(s) /\ LowerChar(s[i + k - 1]) = LowerChar(q[k])

\* item has a field among keys that contains q
FieldContains(item, q, keys) == \E key \in keys : ContainsLowered(item[key], q)

\* the items of seq that have a field among keys containing q, in their order
RECURSIVE Kept(_, _, _)
Kept(seq, q, keys) ==
  IF seq = <<>> THEN <<>>
  ELSE IF FieldContains(Head(seq), q, keys)
       THEN <<Head(seq)>> \o Kept(Tail(seq), q, keys)
       ELSE Kept(Tail(seq), q, keys)

SearchQueries == {<<Chr.a>>, <<Chr.B, Chr.a>>, <<Chr.d9>>}

\* cycle c ends in this step on a branch that displays data
SettlesWithData(c) ==
  /\ cycPc[c] # "settled" /\ cycPc'[c] = "settled"
  /\ cycPath'[c] \in {"server", "fetch_failed_cache", "offline_cache"}

\* the filtered people view holds, of every group of shown, the members
\* matching q in their order, and no group without one
MatchingGroupsOnly(shown, filtered, q) ==
  /\ \A g \in 1..Len(shown) :
       LET members == Kept(shown[g].employees, q, EmployeeSearchKeys)
       IN IF members = <<>>
          THEN \A h \in 1..Len(filtered) : filtered[h].key # shown[g].key
          ELSE \E h \in 1..Len(filtered) :
                 filtered[h].key = shown[g].key /\ filtered[h].employees = members
  /\ \A h \in 1..Len(filtered) :
       \E g \in 1..Len(shown) : shown[g].key = filtered[h].key

\* C22: for a non-empty query, after every settled cycle that displays data,
\* a displayed group is in the filtered people view iff a member of it
\* matches, and then with exactly its matching members in displayed order
C22_FilteredViewIsMatchingPeople ==
  [][\A c \in Cyc :
       SettlesWithData(c) =>
         \A q \in SearchQueries :
           MatchingGroupsOnly(data'.office,
                              filteredOfficeOf(data'.office, rawOfficeData', q), q)]_vars

\* the list raw holds the people of the groups of office, each as often
RawMatchesDisplayed(raw, office) ==
  LET shown == FlattenGroups(office)
  IN /\ Len(raw) = Len(shown)
     /\ \A i \in 1..Len(shown) : Occurrences(raw, shown[i]) = Occurrences(shown, shown[i])

\* C23: after every settled cycle that displays data (from the server, from
\* the cache after a failed fetch, from the cache while offline) the list
\* that searching filters is the same multiset of people as the displayed
\* groups
C23_SearchListMatchesDisplayed ==
  [][\A c \in Cyc :
       SettlesWithData(c) => RawMatchesDisplayed(rawOfficeData', data'.office)]_vars

\* room x is not after room y: lower-cased city, then lower-cased address
RoomNotAfter(x, y) ==
  \/ StrLess(toLowerCase(x.city), toLowerCase(y.city))
  \/ /\ toLowerCase(x.city) = toLowerCase(y.city)
     /\ ~StrLess(toLowerCase(y.address), toLowerCase(x.address))

\* C24: sortCabinetData returns a reordering of its input in ascending order
\* of lower-cased city and, for equal city, lower-cased address (Zurich/Main
\* and Austin/First come out Austin first), and leaves its input as it was
C24_RoomsSorted ==
  [][(fnPc = "rooms" /\ fnPc' = "sorted") =>
       /\ inCabinets' = inCabinets
       /\ Len(outCabinets') = Len(inCabinets)
       /\ \A x \in Rooms : Occurrences(outCabinets', x) = Occurrences(inCabinets, x)
       /\ \A i, j \in 1..Len(outCabinets') :
            i < j => RoomNotAfter(outCabinets'[i], outCabinets'[j])
       /\ (inCabinets = <<[city |-> sZurich, address |-> sMain, internalNumber |-> <<Chr.d1>>],
                          [city |-> sAustin, address |-> sFirst, internalNumber |-> <<Chr.d2>>]>>)
            => outCabinets'[1].city = sAustin /\ outCabinets'[2].city = sZurich]_vars

\* the rooms Zurich/Main and Austin/First were sorted, Austin first
C24_Witness ==
  /\ fnPc = "sorted"
  /\ inCabinets = <<[city |-> sZurich, address |-> sMain, internalNumber |-> <<Chr.d1>>],
                    [city |-> sAustin, address |-> sFirst, internalNumber |-> <<Chr.d2>>]>>
  /\ outCabinets = <<[city |-> sAustin, address |-> sFirst, internalNumber |-> <<Chr.d2>>],
                     [city |-> sZurich, address |-> sMain, internalNumber |-> <<Chr.d1>>]>>

\* C27: when the people sheet, the rooms sheet or both are missing from a
\* readable source, the load succeeds: the snapshot has the empty sequence
\* for each missing kind, the slot holds it under the observed key, and the
\* response is the success envelope
C27_MissingSheetsLoadEmpty ==
  [][\A r \in Req :
       (/\ reqPc[r] = "loaded" /\ reqPc'[r] = "returned"
        /\ reqRead[r].ok
        /\ (reqRead[r].wb.office = <<>> \/ reqRead[r].wb.cabinets = <<>>)) =>
         /\ cachedData' # Null
         /\ reqRead[r].wb.office = <<>> => cachedData'.office = <<>>
         /\ reqRead[r].wb.cabinets = <<>> => cachedData'.cabinets = <<>>
         /\ cachedData'.timestamp = reqModTime[r]
         /\ lastModifiedTime' = reqModTime[r]
         /\ reqResult'[r] = cachedData'
         /\ reqResp'[r] = [code |-> 200, status |-> "success", data |-> cachedData']]_vars

\* a source without both sheets was loaded: an empty snapshot in the slot and
\* in the success response
C27_Witness ==
  \E r \in Req :
    /\ reqPc[r] = "returned"
    /\ reqRead[r].ok
    /\ reqRead[r].wb.office = <<>> /\ reqRead[r].wb.cabinets = <<>>
    /\ cachedData = reqResult[r]
    /\ cachedData # Null /\ cachedData.office = <<>> /\ cachedData.cabinets = <<>>
    /\ lastModifiedTime = reqModTime[r]
    /\ reqResp[r].status = "success"

\* C29: at no time are two reloads of the source in flight on the server:
\* a request that finds the slot empty or stale while a reload runs waits
\* for that reload and starts no parse of its own
C29_OneReloadInFlight == Cardinality(InFlight) <= 1

\* C33: the health path reports cacheStatus "active" iff at least one load
\* has succeeded since the process started, and "empty" otherwise: a
\* populated slot is never emptied again, whatever requests, source edits
\* and absent-source or malformed-source failures follow
C33_HealthActiveIffLoaded ==
  /\ (HealthCacheStatus(cachedData) = "active") <=> everLoaded
  /\ (HealthCacheStatus(cachedData) = "empty") <=> ~everLoaded
  /\ health = "active" => everLoaded

\* a load succeeded, the source was then edited and lost or broken, a later
\* request failed, and the health path still answered "active"
C33_Witness ==
  /\ everLoaded
  /\ health = "active"
  /\ file.mtime > lastModifiedTime
  /\ ~file.exists \/ file.wb.bad
  /\ \E r \in Req : reqPc[r] = "returned" /\ reqResp[r].code = 500

\* C34: in every state a request handler can observe, under any
\* interleaving of concurrent loads, the slot is consistent: cachedData is
\* null with lastModifiedTime 0, or non-null with cachedData.timestamp equal
\* to lastModifiedTime
C34_SlotConsistent ==
  IF cachedData = Null THEN lastModifiedTime = 0
  ELSE cachedData.timestamp = lastModifiedTime

\* two reloads that read different modification times overlap: one has
\* replaced the slot, the other is still in flight
C34_Witness ==
  /\ cachedData # Null
  /\ \E r, q \in Req :
       /\ r # q
       /\ reqPc[r] = "returned" /\ reqResult[r] = cachedData
       /\ reqRead[r].ok
       /\ q \in InFlight
       /\ reqModTime[q] # reqModTime[r]

\* C35: every successful /api/handbook response carries a data.timestamp
\* equal to the modification time the same request read from the source at
\* its start, on a cache hit as well as on a reload, also when other requests
\* replace the slot while the reload of this request is in progress
C35_ResponseStampedWithOwnRead ==
  \A r \in Req :
    reqResp[r].status = "success" => reqResp[r].data.timestamp = reqModTime[r]

\* request q read a newer modification time and replaced the slot while the
\* reload of r, started before the edit, was in progress; r then replaced
\* the slot and both answered with their own modification times
C35_Witness ==
  \E r, q \in Req :
    /\ r # q
    /\ reqResp[r].status = "success" /\ reqResp[q].status = "success"
    /\ reqRead[r].ok /\ reqRead[q].ok
    /\ reqModTime[r] < reqModTime[q]
    /\ reqResp[q].data.timestamp = reqModTime[q]
    /\ reqResp[r].data.timestamp = reqModTime[r]
    /\ lastModifiedTime = reqModTime[r]

(***************************************************************************)
(* Properties of the Record Normalizer.                                    *)
(***************************************************************************)
\* the priority cell of the row of inRows that names the person
PriorityCellOf(employee) ==
  LET k == CHOOSE k \in 2..Len(inRows) : CellAt(inRows[k], 4) = employee.fullName
  IN CellAt(inRows[k], 2)

\* the cell holds an explicit integer: digits only, at least one
ExplicitInteger(cell) == cell # <<>> /\ \A i \in 1..Len(cell) : IsDigit(cell[i])

\* C25: after normalization and grouping, a person whose priority cell held an
\* explicit integer has exactly that integer as sortPriority, and inside a
\* group every person whose cell was absent or non-numeric comes after every
\* person whose cell held an explicit integer
C25_DefaultPriorityLast ==
  (fnPc = "normalized" /\ trPc = "grouped") =>
    /\ \A i \in 1..Len(inPeople) :
         ExplicitInteger(PriorityCellOf(inPeople[i])) =>
           inPeople[i].sortPriority = DigitsValue(PriorityCellOf(inPeople[i]), 0)
    /\ \A g \in 1..Len(outGrouped) :
         \A i, j \in 1..Len(outGrouped[g].employees) :
           (/\ ExplicitInteger(PriorityCellOf(outGrouped[g].employees[i]))
            /\ ~ExplicitInteger(PriorityCellOf(outGrouped[g].employees[j]))) => i < j

\* the rows under the header that have a cell that is not empty
RECURSIVE DataRows(_)
DataRows(rows) ==
  IF rows = <<>> THEN <<>>
  ELSE IF \E k \in 1..Len(Head(rows)) : Head(rows)[k] # <<>>
       THEN <<Head(rows)>> \o DataRows(Tail(rows))
       ELSE DataRows(Tail(rows))

\* the sheet of the example: header, (Sales, 1, Mgr, Jane, 101, 100), empty row
ExampleSheet == <<Hdr, <<sSales, sOne, sMgr, sJane, s101, s100>>, EmptyRow>>

ExamplePerson ==
  [department |-> sSales, sortPriority |-> 1, position |-> sMgr, fullName |-> sJane,
   internalNumber |-> s101, generalNumber |-> s100]

\* C26: the normalizer skips the header row and every row whose cells are all
\* empty or absent and emits one record for every other row, in order; the
\* example sheet yields the one person Jane of Sales with priority 1, and
\* grouping it yields the one group Sales with Jane and generalNumber 100
C26_HeaderAndEmptyRowsSkipped ==
  fnPc = "normalized" =>
    /\ Len(inPeople) = Len(DataRows(Tail(inRows)))
    /\ \A i \in 1..Len(inPeople) :
         /\ inPeople[i].fullName = CellAt(DataRows(Tail(inRows))[i], 4)
         /\ inPeople[i].department = CellAt(DataRows(Tail(inRows))[i], 1)
    /\ inRows = ExampleSheet => inPeople = <<ExamplePerson>>
    /\ (inRows = ExampleSheet /\ trPc = "grouped") =>
         outGrouped = <<[key |-> sSales, employees |-> <<ExamplePerson>>,
                         generalNumber |-> s100]>>

\* the example sheet was normalized and grouped
C26_Witness ==
  /\ fnPc = "normalized" /\ trPc = "grouped"
  /\ inRows = ExampleSheet
  /\ Len(inPeople) = 1
  /\ Len(outGrouped) = 1 /\ outGrouped[1].employees = <<ExamplePerson>>

====
